---------------------------- MODULE Spec2Model ----------------------------
(***************************************************************************)
(* A model of anni-provider-od: OneDriveClient (credential refresh around  *)
(* the drive handle) and OneDriveProvider (the album catalog).             *)
(***************************************************************************)
EXTENDS Integers, Sequences, FiniteSets, TLC

\* ------------------------------------------------------------------ bounds
\* tasks calling the client, calls they start in all, seconds the clock
\* runs, and the largest expires_in_secs the endpoint answers with
NumCallers == 2
MaxCalls == 2
MaxTime == 2
MaxExpiresIn == 1

\* seconds the clock runs under the fair runtime of LiveSpec
LiveTime == 1

Callers == 1..NumCallers
Epochs == 0..(MaxTime + MaxExpiresIn)

\* Option<T>: <<>> is None, <<v>> is Some(v)
None == <<>>
Some(v) == <<v>>

VARIABLES
    \* ---- OneDriveClient
    clock,          \* now().as_secs()
    expire,         \* OneDriveClient.expire (AtomicU64)
    drive,          \* access token held by OneDriveClient.drive (its generation)
    refresh_token,  \* client_info.refresh_token (its generation)
    infoLock,       \* the holder of client_info's write lock: {} or {c}
    driveReaders,   \* callers holding a read guard of drive
    \* ---- identity endpoint
    srvToken,       \* the refresh token the endpoint currently accepts
    \* ---- each caller's task
    pc,             \* position in the call
    local,          \* locals of refresh(): the token reply [tok, exp]
    sentRT,         \* refresh token carried by the caller's exchange request
    reqTok,         \* access token carried by the call's backend request, if sent
    result,         \* how the call ended
    \* ---- history
    calls,          \* calls started so far
    seen,           \* expire value read by the caller's latest is_expired()
    startExpired,   \* the call found the credential expired when it began
    startDone,      \* successful refreshes completed when the call began
    nExch,          \* exchange requests sent by the current call
    atLock,         \* [drive, refresh_token, expire] when refresh() got the lock
    okCount,        \* epoch -> successful exchanges made for that expiry epoch
    completed,      \* refresh() calls that installed a new credential
    expireGen,      \* the exchange (by its token generation) that set expire
    \* ---- OneDriveProvider
    albums,         \* OneDriveProvider.albums: album_id -> path without prefix '/'
    items,          \* the listing the latest list_children of a reload returned
    pcR,            \* position of the task calling reload()
    resultR,        \* how the latest reload() ended
    reloads,        \* reload() calls started so far
    rpc,            \* position of each reading task
    ralbum,         \* album_id the reading task asked for
    rpath,          \* the remote path the reading task resolved
    robs,           \* what the read saw: the key set, or whether the id was found
    rresult,        \* how the read ended
    reads,          \* reads started so far
    \* ---- history
    committed,      \* the catalog as the latest completed reload left it
    \* ---- a reading task's requests
    rop,            \* the provider method the reading task called
    rqueries,       \* metadata queries (get_item) the call in flight has sent
    rget,           \* the url the call sent its download GET to, if it did,
                    \* named by the call it was issued to
    \* ---- history
    rcause,         \* "refresh" once a failed credential exchange ended the call
    \* ---- the range of a response
    crPc,           \* position of the task negotiating a range
    crIn,           \* its inputs: the range asked for and the header answered
    crOut,          \* the range content_range_to_range made of the header
    \* ---- the remote paths
    fpPc,           \* position of the task resolving paths
    fpIn,           \* its inputs: a listed entry and the ids asked for
    fpOut           \* the base path stored and the paths formatted

credVars == <<clock, expire, drive, refresh_token, infoLock, driveReaders,
              srvToken, pc, local, sentRT, reqTok, result, calls, seen,
              startExpired, startDone, nExch, atLock, okCount, completed,
              expireGen>>

catVars == <<albums, items, pcR, resultR, reloads, rpc, ralbum, rpath, robs,
             rresult, reads, committed>>

fetchVars == <<rop, rqueries, rget, rcause>>

rangeVars == <<crPc, crIn, crOut>>

pathVars == <<fpPc, fpIn, fpOut>>

auxVars == <<rangeVars, pathVars>>

vars == <<credVars, catVars, fetchVars, auxVars>>

NoLocal == [tok |-> 0, exp |-> 0]
NoSnap == [drive |-> 0, refresh_token |-> 0, expire |-> 0]

\* ------------------------------------------------------- OneDriveClient
\* lib.rs:104 is_expired: now > expire
is_expired == clock > expire

\* refresh() without the re-check under the lock
refresh_recheck_skipped == TRUE

\* lib.rs:114 the re-check refresh() makes once it holds the write lock
refresh_recheck == is_expired

\* the operations without the refresh_if_expired call
auto_refresh_off == FALSE

\* lib.rs:148 #[cfg(feature = "auto-refresh")]
auto_refresh == TRUE

CredInit ==
    /\ clock = 0
    /\ expire \in 0..MaxExpiresIn
    /\ drive = 0
    /\ refresh_token = 0
    /\ infoLock = {}
    /\ driveReaders = {}
    /\ srvToken = 0
    /\ pc = [c \in Callers |-> "idle"]
    /\ local = [c \in Callers |-> NoLocal]
    /\ sentRT = [c \in Callers |-> 0]
    /\ reqTok = [c \in Callers |-> None]
    /\ result = [c \in Callers |-> "none"]
    /\ calls = 0
    /\ seen = [c \in Callers |-> 0]
    /\ startExpired = [c \in Callers |-> FALSE]
    /\ startDone = [c \in Callers |-> 0]
    /\ nExch = [c \in Callers |-> 0]
    /\ atLock = [c \in Callers |-> NoSnap]
    /\ okCount = [e \in Epochs |-> 0]
    /\ completed = 0
    /\ expireGen = 0

\* the wall clock advances
Tick ==
    /\ clock < MaxTime
    /\ clock' = clock + 1
    /\ UNCHANGED <<expire, drive, refresh_token, infoLock, driveReaders,
                   srvToken, pc, local, sentRT, reqTok, result, calls,
                   seen, startExpired, startDone, nExch, atLock, okCount,
                   completed>>
    /\ UNCHANGED expireGen
    /\ UNCHANGED <<catVars, fetchVars, auxVars>>

\* an operation that takes drive.read() before it calls refresh_if_expired
refresh_if_expired_under_guard(c) ==
    /\ pc[c] = "idle"
    /\ calls < MaxCalls
    /\ \A w \in Callers : pc[w] # "install_drive"
    /\ driveReaders' = driveReaders \cup {c}
    /\ calls' = calls + 1
    /\ seen' = [seen EXCEPT ![c] = expire]
    /\ startExpired' = [startExpired EXCEPT ![c] = is_expired]
    /\ startDone' = [startDone EXCEPT ![c] = completed]
    /\ nExch' = [nExch EXCEPT ![c] = 0]
    /\ result' = [result EXCEPT ![c] = "none"]
    /\ pc' = [pc EXCEPT ![c] = IF is_expired THEN "refresh" ELSE "drive_read"]
    /\ UNCHANGED <<clock, expire, drive, refresh_token, infoLock,
                   srvToken, local, sentRT, reqTok, atLock,
                   okCount, completed>>
    /\ UNCHANGED expireGen
    /\ UNCHANGED <<catVars, fetchVars, auxVars>>

\* lib.rs:135-142 refresh_if_expired, entered from a backend operation:
\* the operation starts and evaluates is_expired()
refresh_if_expired(c) ==
    /\ pc[c] = "idle"
    /\ calls < MaxCalls
    /\ calls' = calls + 1
    /\ seen' = [seen EXCEPT ![c] = expire]
    /\ startExpired' = [startExpired EXCEPT ![c] = is_expired]
    /\ startDone' = [startDone EXCEPT ![c] = completed]
    /\ nExch' = [nExch EXCEPT ![c] = 0]
    /\ result' = [result EXCEPT ![c] = "none"]
    /\ pc' = [pc EXCEPT ![c] =
                IF auto_refresh /\ is_expired THEN "refresh" ELSE "drive_read"]
    /\ UNCHANGED <<clock, expire, drive, refresh_token, infoLock,
                   driveReaders, srvToken, local, sentRT, reqTok, atLock,
                   okCount, completed>>
    /\ UNCHANGED expireGen
    /\ UNCHANGED <<catVars, fetchVars, auxVars>>

\* lib.rs:144-151
list_children(c) == refresh_if_expired(c)

\* lib.rs:153-160
get_item_download_url(c) == refresh_if_expired(c)

\* lib.rs:162-177
get_item(c) == refresh_if_expired(c)

\* lib.rs:113-120 refresh: take client_info's write lock, re-check the
\* expiry, and send the exchange with the stored refresh token
refresh_enter(c) ==
    /\ pc[c] = "refresh"
    /\ infoLock = {}
    /\ atLock' = [atLock EXCEPT ![c] =
           [drive |-> drive, refresh_token |-> refresh_token, expire |-> expire]]
    /\ IF refresh_recheck
         THEN /\ infoLock' = {c}
              /\ seen' = [seen EXCEPT ![c] = expire]
              /\ sentRT' = [sentRT EXCEPT ![c] = refresh_token]
              /\ nExch' = [nExch EXCEPT ![c] = @ + 1]
              /\ pc' = [pc EXCEPT ![c] = "exchange"]
         ELSE /\ pc' = [pc EXCEPT ![c] = "drive_read"]
              /\ UNCHANGED <<infoLock, seen, sentRT, nExch>>
    /\ UNCHANGED <<clock, expire, drive, refresh_token, driveReaders,
                   srvToken, local, reqTok, result, calls, startExpired,
                   startDone, okCount, completed>>
    /\ UNCHANGED expireGen
    /\ UNCHANGED <<catVars, fetchVars, auxVars>>

\* lib.rs:117-123 the endpoint accepts the exchange: it rotates the refresh
\* token and answers with a new token pair and expires_in_secs
login_ok(c, secs) ==
    /\ pc[c] = "exchange"
    /\ sentRT[c] = srvToken
    /\ srvToken' = srvToken + 1
    /\ local' = [local EXCEPT ![c] = [tok |-> srvToken + 1, exp |-> clock + secs]]
    /\ okCount' = [okCount EXCEPT ![seen[c]] = @ + 1]
    /\ pc' = [pc EXCEPT ![c] = "install_drive"]
    /\ UNCHANGED <<clock, expire, drive, refresh_token, infoLock,
                   driveReaders, sentRT, reqTok, result, calls, seen,
                   startExpired, startDone, nExch, atLock, completed>>
    /\ UNCHANGED expireGen
    /\ UNCHANGED <<catVars, fetchVars, auxVars>>

\* a failed exchange that marks the credential as expiring now
login_err_touches(c) ==
    /\ pc[c] = "exchange"
    /\ infoLock' = {}
    /\ expire' = clock
    /\ result' = [result EXCEPT ![c] =
           IF sentRT[c] = srvToken THEN "auth_err" ELSE "auth_stale"]
    /\ pc' = [pc EXCEPT ![c] = "done"]
    /\ UNCHANGED <<clock, drive, refresh_token, driveReaders,
                   srvToken, local, sentRT, reqTok, calls, seen,
                   startExpired, startDone, nExch, atLock, okCount, completed>>
    /\ UNCHANGED expireGen
    /\ UNCHANGED <<catVars, fetchVars, auxVars>>

\* a failed exchange that is sent once more before giving up
login_err_retries(c) ==
    /\ pc[c] = "exchange"
    /\ IF nExch[c] < 2
         THEN /\ nExch' = [nExch EXCEPT ![c] = @ + 1]
              /\ UNCHANGED <<infoLock, result, pc>>
         ELSE /\ infoLock' = {}
              /\ result' = [result EXCEPT ![c] = "auth_err"]
              /\ pc' = [pc EXCEPT ![c] = "done"]
              /\ UNCHANGED nExch
    /\ UNCHANGED <<clock, expire, drive, refresh_token, driveReaders,
                   srvToken, local, sentRT, reqTok, calls, seen,
                   startExpired, startDone, atLock, okCount, completed>>
    /\ UNCHANGED expireGen
    /\ UNCHANGED <<catVars, fetchVars, auxVars>>

\* lib.rs:117-120 the exchange fails (`?`): the guard is dropped, Err returned
login_err(c) ==
    /\ pc[c] = "exchange"
    /\ infoLock' = {}
    /\ result' = [result EXCEPT ![c] =
           IF sentRT[c] = srvToken THEN "auth_err" ELSE "auth_stale"]
    /\ pc' = [pc EXCEPT ![c] = "done"]
    /\ UNCHANGED <<clock, expire, drive, refresh_token, driveReaders,
                   srvToken, local, sentRT, reqTok, calls, seen,
                   startExpired, startDone, nExch, atLock, okCount, completed>>
    /\ UNCHANGED expireGen
    /\ UNCHANGED <<catVars, fetchVars, auxVars>>

\* refresh() that publishes the new expiry where it should install the drive
refresh_expire_before_drive(c) ==
    /\ pc[c] = "install_drive"
    /\ expire' = local[c].exp
    /\ expireGen' = local[c].tok
    /\ pc' = [pc EXCEPT ![c] = "set_expire"]
    /\ UNCHANGED <<clock, drive, refresh_token, infoLock, driveReaders,
                   srvToken, local, sentRT, reqTok, result, calls, seen,
                   startExpired, startDone, nExch, atLock, okCount, completed>>
    /\ UNCHANGED <<catVars, fetchVars, auxVars>>

\* lib.rs:125-127 *self.drive.write().await = drive
refresh_install_drive(c) ==
    /\ pc[c] = "install_drive"
    /\ driveReaders = {}
    /\ drive' = local[c].tok
    /\ pc' = [pc EXCEPT ![c] = "set_expire"]
    /\ UNCHANGED <<clock, expire, refresh_token, infoLock, driveReaders,
                   srvToken, local, sentRT, reqTok, result, calls, seen,
                   startExpired, startDone, nExch, atLock, okCount, completed>>
    /\ UNCHANGED expireGen
    /\ UNCHANGED <<catVars, fetchVars, auxVars>>

\* lib.rs:129 self.set_expire(expire.as_secs())
set_expire(c) ==
    /\ pc[c] = "set_expire"
    /\ expire' = local[c].exp
    /\ expireGen' = local[c].tok
    /\ pc' = [pc EXCEPT ![c] = "set_token"]
    /\ UNCHANGED <<clock, drive, refresh_token, infoLock, driveReaders,
                   srvToken, local, sentRT, reqTok, result, calls, seen,
                   startExpired, startDone, nExch, atLock, okCount, completed>>
    /\ UNCHANGED <<catVars, fetchVars, auxVars>>

\* refresh() that keeps the refresh token it already had
store_refresh_token_kept(c) == refresh_token

\* lib.rs:130 info.refresh_token = refresh_token
store_refresh_token(c) == local[c].tok

\* lib.rs:130-133 store the rotated refresh token, drop the guard, Ok(())
refresh_finish(c) ==
    /\ pc[c] = "set_token"
    /\ refresh_token' = store_refresh_token(c)
    /\ infoLock' = {}
    /\ completed' = completed + 1
    /\ local' = [local EXCEPT ![c] = NoLocal]
    /\ pc' = [pc EXCEPT ![c] = "drive_read"]
    /\ UNCHANGED <<clock, expire, drive, driveReaders, srvToken, sentRT,
                   reqTok, result, calls, seen, startExpired, startDone,
                   nExch, atLock, okCount>>
    /\ UNCHANGED expireGen
    /\ UNCHANGED <<catVars, fetchVars, auxVars>>

\* lib.rs:150,159,169-172 self.drive.read().await and the backend request;
\* tokio's RwLock queues a reader behind a waiting writer
drive_read(c) ==
    /\ pc[c] = "drive_read"
    /\ \A w \in Callers : pc[w] # "install_drive"
    /\ driveReaders' = driveReaders \cup {c}
    /\ reqTok' = [reqTok EXCEPT ![c] = Some(drive)]
    /\ pc' = [pc EXCEPT ![c] = "request"]
    /\ UNCHANGED <<clock, expire, drive, refresh_token, infoLock, srvToken,
                   local, sentRT, result, calls, seen, startExpired,
                   startDone, nExch, atLock, okCount, completed>>
    /\ UNCHANGED expireGen
    /\ UNCHANGED <<catVars, fetchVars, auxVars>>

\* lib.rs:150,159,172-175 the backend answers; the read guard is dropped
backend_reply(c, ok) ==
    /\ pc[c] = "request"
    /\ driveReaders' = driveReaders \ {c}
    /\ result' = [result EXCEPT ![c] = IF ok THEN "ok" ELSE "backend_err"]
    /\ pc' = [pc EXCEPT ![c] = "done"]
    /\ UNCHANGED <<clock, expire, drive, refresh_token, infoLock, srvToken,
                   local, sentRT, reqTok, calls, seen, startExpired,
                   startDone, nExch, atLock, okCount, completed>>
    /\ UNCHANGED expireGen
    /\ UNCHANGED <<catVars, fetchVars, auxVars>>

\* the caller takes the result and may call again
Return(c) ==
    /\ pc[c] = "done"
    /\ pc' = [pc EXCEPT ![c] = "idle"]
    /\ result' = [result EXCEPT ![c] = "none"]
    /\ sentRT' = [sentRT EXCEPT ![c] = 0]
    /\ reqTok' = [reqTok EXCEPT ![c] = None]
    /\ seen' = [seen EXCEPT ![c] = 0]
    /\ startExpired' = [startExpired EXCEPT ![c] = FALSE]
    /\ startDone' = [startDone EXCEPT ![c] = 0]
    /\ nExch' = [nExch EXCEPT ![c] = 0]
    /\ atLock' = [atLock EXCEPT ![c] = NoSnap]
    /\ UNCHANGED <<clock, expire, drive, refresh_token, infoLock,
                   driveReaders, srvToken, local, calls, okCount, completed>>
    /\ UNCHANGED expireGen
    /\ UNCHANGED <<catVars, fetchVars, auxVars>>

CredNext ==
    \/ Tick
    \/ \E c \in Callers : list_children(c)
    \/ \E c \in Callers : get_item_download_url(c)
    \/ \E c \in Callers : get_item(c)
    \/ \E c \in Callers : refresh_enter(c)
    \/ \E c \in Callers, secs \in 0..MaxExpiresIn : login_ok(c, secs)
    \/ \E c \in Callers : login_err(c)
    \/ \E c \in Callers : refresh_install_drive(c)
    \/ \E c \in Callers : set_expire(c)
    \/ \E c \in Callers : refresh_finish(c)
    \/ \E c \in Callers : drive_read(c)
    \/ \E c \in Callers, ok \in BOOLEAN : backend_reply(c, ok)
    \/ \E c \in Callers : Return(c)

\* ----------------------------------------------------- OneDriveProvider
\* tasks reading the provider, reads and reloads started in all, and the
\* largest disc_id and track_id asked for
NumReaders == 1
MaxReads == 1
MaxReloads == 2
MaxDisc == 1
MaxTrack == 1

Readers == 1..NumReaders

\* DriveItems a listing can hold: name and parent_reference["path"]
Album1 == "1178e13b-f661-49db-98db-28a04c5583b7"
Album2 == "0c5e2f4a-9b1d-4d6e-8a3f-7e2b1c4d5f60"
Album3 == "5d3a9f10-2c4b-4e7a-b1d8-6f0e9a8b7c21"
Unlisted == "ffffffff-ffff-ffff-ffff-ffffffffffff"
ItemUniverse ==
    { [name |-> Some(Album1), parent |-> Some("/drive/root:/music")],
      [name |-> Some(Album2), parent |-> Some("/drive/root:")],
      [name |-> Some("cover.jpg"), parent |-> Some("/drive/root:")],
      [name |-> Some(Album3), parent |-> None],
      [name |-> None, parent |-> Some("/drive/root:")] }
AlbumIds == {Album1, Album2, Album3, "cover.jpg", Unlisted}

\* str::split(ch): the pieces of s between occurrences of ch
RECURSIVE SplitFrom(_, _, _, _)
SplitFrom(s, ch, i, piece) ==
    IF i > Len(s) THEN <<piece>>
    ELSE IF SubSeq(s, i, i) = ch
         THEN <<piece>> \o SplitFrom(s, ch, i + 1, "")
         ELSE SplitFrom(s, ch, i + 1, piece \o SubSeq(s, i, i))
Split(s, ch) == SplitFrom(s, ch, 1, "")

\* Iterator::skip_while(|c| *c != "root:")
RECURSIVE SkipToRoot(_)
SkipToRoot(q) ==
    IF q = <<>> THEN <<>>
    ELSE IF Head(q) # "root:" THEN SkipToRoot(Tail(q)) ELSE q

\* Iterator::skip(1)
Skip1(q) == IF q = <<>> THEN <<>> ELSE Tail(q)

\* collect::<String>() of string pieces
RECURSIVE Collect(_)
Collect(q) == IF q = <<>> THEN "" ELSE Head(q) \o Collect(Tail(q))

\* lib.rs:229-234 the parent path of a listed item
parent_path(p) == Collect(Skip1(SkipToRoot(Split(p, "/"))))

\* lib.rs:226-236 the filter_map closure: the items that yield an entry
kept(listing) == {i \in listing : i.name # None /\ i.parent # None}

\* lib.rs:226-236 the (name, parent path) pairs the closure yields, as a map
entries(listing) ==
    [n \in {i.name[1] : i \in kept(listing)} |->
        parent_path((CHOOSE i \in kept(listing) : i.name[1] = n).parent[1])]

EmptyMap == [n \in {} |-> ""]

\* HashMap::extend: insert every pair, overwriting a key already present
extend(m, e) ==
    [n \in DOMAIN m \cup DOMAIN e |-> IF n \in DOMAIN e THEN e[n] ELSE m[n]]

\* a reload that merges into the map it already has
cleared_nothing(m) == m

\* lib.rs:238 self.albums.clear()
cleared(m) == EmptyMap

\* a formatter without the empty-base case
format_audio_path_prefixed(base, album_id, disc_id, track_id, ext) ==
    "/" \o base \o "/" \o album_id \o "/" \o ToString(disc_id) \o "/"
        \o ToString(track_id) \o "." \o ext

\* lib.rs:414-426
format_audio_path(base, album_id, disc_id, track_id, ext) ==
    IF base = ""
      THEN "/" \o album_id \o "/" \o ToString(disc_id) \o "/"
               \o ToString(track_id) \o "." \o ext
      ELSE "/" \o base \o "/" \o album_id \o "/" \o ToString(disc_id) \o "/"
               \o ToString(track_id) \o "." \o ext

\* lib.rs:428-438
format_cover_path(base, album_id, disc_id) ==
    LET path == IF disc_id # None
                  THEN "/" \o album_id \o "/" \o ToString(disc_id[1])
                           \o "/cover.jpg"
                  ELSE "/" \o album_id \o "/cover.jpg"
    IN  IF base = "" THEN path ELSE "/" \o base \o path

\* lib.rs:202 extension: String::from("flac")
extension == "flac"

\* mp3.rs:30 provider.extension = String::from("mp3")
mp3_extension == "mp3"

\* a task holds `&self` while its read is in flight or its result borrows
Borrowing(r) ==
    rpc[r] \in {"get_item", "mp3_get_item", "download", "read_duration",
                "albums_done"}

\* a reload that mutates the map behind shared references
reload_unguarded == TRUE

\* lib.rs:221,338 reload(&mut self): no `&self` borrow may be live
reload_exclusive == \A r \in Readers : ~Borrowing(r)

\* reads that do not wait for a running reload
shared_borrow_unguarded == TRUE

\* lib.rs:282,287 albums(&self), get_audio(&self): no `&mut self` may be live
shared_borrow == pcR = "idle"

\* no range is negotiated and no path resolved
AuxRest ==
    /\ crPc = "rest" /\ crIn = None /\ crOut = None
    /\ fpPc = "rest" /\ fpIn = None /\ fpOut = None

\* no reading task has sent anything
ReadersIdle ==
    /\ rop = [r \in Readers |-> ""]
    /\ rqueries = [r \in Readers |-> 0]
    /\ rget = [r \in Readers |-> None]
    /\ rcause = [r \in Readers |-> ""]

\* the state OneDriveProvider::new leaves: with_drive, then reload_albums
CatInit ==
    /\ items \in SUBSET ItemUniverse
    /\ albums = extend(EmptyMap, entries(items))
    /\ committed = albums
    /\ pcR = "idle"
    /\ resultR = "ok"
    /\ reloads = 0
    /\ rpc = [r \in Readers |-> "idle"]
    /\ ralbum = [r \in Readers |-> ""]
    /\ rpath = [r \in Readers |-> ""]
    /\ robs = [r \in Readers |-> {}]
    /\ rresult = [r \in Readers |-> "none"]
    /\ reads = 0
    /\ ReadersIdle

\* lib.rs:356-360 From<onedrive_api::Error> for Error; e is the step of
\* OneDriveClient::get_item that failed: "refresh" (lib.rs:168) or
\* "request" (lib.rs:169-173)
OneDriveError(e) == [variant |-> "OneDriveError", e |-> e]

\* lib.rs:362-369 From<Error> for ProviderError
ProviderError_from(value) ==
    IF value.variant = "ProviderError" THEN value.e ELSE "GeneralError"

\* values the pub field `path` may hold when reload() is called
RootPaths == {"/", "/music/anni", "music", ""}

\* lib.rs:224 ItemLocation::from_path: the root, or an absolute path whose
\* components are all non-empty
from_path(p) ==
    IF p = "/" THEN Some("/drive/root:")
    ELSE IF /\ Len(p) > 0
            /\ SubSeq(p, 1, 1) = "/"
            /\ LET comps == Split(SubSeq(p, 2, Len(p)), "/")
               IN  \A i \in 1..Len(comps) : comps[i] # ""
      THEN Some("/drive/root:" \o p)
    ELSE None

\* a reload that empties the map before it lists
reload_clear_first(path) ==
    /\ pcR = "idle"
    /\ reloads < MaxReloads
    /\ reload_exclusive
    /\ reloads' = reloads + 1
    /\ albums' = cleared(albums)
    /\ IF from_path(path) = None
         THEN resultR' = "InvalidPath" /\ pcR' = "idle"
         ELSE resultR' = "none" /\ pcR' = "list"
    /\ UNCHANGED <<items, rpc, ralbum, rpath, robs, rresult, reads,
                   committed>>
    /\ UNCHANGED <<credVars, fetchVars, auxVars>>

\* lib.rs:337-341 reload, lib.rs:221-225 reload_albums: the root path
\* becomes a location, or the call ends (`?`); then list_children is sent
reload(path) ==
    /\ pcR = "idle"
    /\ reloads < MaxReloads
    /\ reload_exclusive
    /\ reloads' = reloads + 1
    /\ IF from_path(path) = None
         THEN resultR' = "InvalidPath" /\ pcR' = "idle"
         ELSE resultR' = "none" /\ pcR' = "list"
    /\ UNCHANGED <<albums, items, rpc, ralbum, rpath, robs, rresult, reads,
                   committed>>
    /\ UNCHANGED <<credVars, fetchVars, auxVars>>

\* lib.rs:222-225 list_children returns the folder's items
list_children_ok(listing) ==
    /\ pcR = "list"
    /\ items' = listing
    /\ pcR' = "clear"
    /\ UNCHANGED <<albums, resultR, reloads, rpc, ralbum, rpath, robs,
                   rresult, reads, committed>>
    /\ UNCHANGED <<credVars, fetchVars, auxVars>>

\* lib.rs:225,340 list_children fails (`?`), in its refresh (lib.rs:149) or
\* in its request; the error becomes a ProviderError
list_children_err(e) ==
    /\ pcR = "list"
    /\ resultR' = ProviderError_from(OneDriveError(e))
    /\ pcR' = "idle"
    /\ UNCHANGED <<albums, items, reloads, rpc, ralbum, rpath, robs, rresult,
                   reads, committed>>
    /\ UNCHANGED <<credVars, fetchVars, auxVars>>

\* lib.rs:238
albums_clear ==
    /\ pcR = "clear"
    /\ albums' = cleared(albums)
    /\ pcR' = "extend"
    /\ UNCHANGED <<items, resultR, reloads, rpc, ralbum, rpath, robs, rresult,
                   reads, committed>>
    /\ UNCHANGED <<credVars, fetchVars, auxVars>>

\* lib.rs:239-240 self.albums.extend(albums); Ok(())
albums_extend ==
    /\ pcR = "extend"
    /\ albums' = extend(albums, entries(items))
    /\ committed' = albums'
    /\ resultR' = "ok"
    /\ pcR' = "idle"
    /\ UNCHANGED <<items, reloads, rpc, ralbum, rpath, robs, rresult, reads>>
    /\ UNCHANGED <<credVars, fetchVars, auxVars>>

\* lib.rs:282-285 albums(): the key set
albums_keys(r) ==
    /\ rpc[r] = "idle"
    /\ reads < MaxReads
    /\ shared_borrow
    /\ reads' = reads + 1
    /\ robs' = [robs EXCEPT ![r] = DOMAIN albums]
    /\ rresult' = [rresult EXCEPT ![r] = "ok"]
    /\ rpc' = [rpc EXCEPT ![r] = "albums_done"]
    /\ UNCHANGED <<albums, items, pcR, resultR, reloads, ralbum, rpath,
                   committed>>
    /\ UNCHANGED <<credVars, fetchVars, auxVars>>

\* a lookup that falls back to the root folder for an unknown album
lookup_default(m, album_id) ==
    IF album_id \in DOMAIN m THEN Some(m[album_id]) ELSE Some("")

\* lib.rs:259,272 mp3.rs:53,93 self.albums.get(album_id)
lookup(m, album_id) ==
    IF album_id \in DOMAIN m THEN Some(m[album_id]) ELSE None

\* DriveItem.download_url (lib.rs:248, mp3.rs:127) of the answer to the
\* query of r's current call: the backend issues a url of its own for
\* every query
download_url(r) == Some("issued to this call")

\* a file_url that answers with the url an earlier call was given
file_url_cached(r, item_url) == Some("issued to an earlier call")

\* lib.rs:247-248 file_url hands on the download url of the item it was sent
file_url(r, item_url) == item_url

\* the beginning every read shares: look the album up; when it is registered
\* keep the formatted path and send the metadata query (get_item)
start_read(r, op, album_id, path, next) ==
    /\ reads < MaxReads
    /\ shared_borrow
    /\ reads' = reads + 1
    /\ rop' = [rop EXCEPT ![r] = op]
    /\ ralbum' = [ralbum EXCEPT ![r] = album_id]
    /\ robs' = [robs EXCEPT ![r] = {album_id} \cap DOMAIN albums]
    /\ IF lookup(albums, album_id) # None
         THEN /\ rpath' = [rpath EXCEPT ![r] = path]
              /\ rresult' = [rresult EXCEPT ![r] = "none"]
              /\ rqueries' = [rqueries EXCEPT ![r] = 1]
              /\ rpc' = [rpc EXCEPT ![r] = next]
         ELSE /\ rpath' = [rpath EXCEPT ![r] = ""]
              /\ rresult' = [rresult EXCEPT ![r] = "FileNotFound"]
              /\ rqueries' = [rqueries EXCEPT ![r] = 0]
              /\ rpc' = [rpc EXCEPT ![r] = "done"]
    /\ UNCHANGED <<albums, items, pcR, resultR, reloads, committed, rget,
                   rcause>>
    /\ UNCHANGED <<credVars, auxVars>>

\* how a read ends: the borrow of the provider is over
end_read(r, res) ==
    /\ rpc' = [rpc EXCEPT ![r] = "done"]
    /\ rresult' = [rresult EXCEPT ![r] = res]
    /\ rpath' = [rpath EXCEPT ![r] = ""]
    /\ robs' = [robs EXCEPT ![r] = {}]
    /\ rqueries' = [rqueries EXCEPT ![r] = 0]
    /\ rget' = [rget EXCEPT ![r] = None]

\* lib.rs:168-176 what is remembered of the step of get_item that failed with e:
\* whether it was the credential exchange
cause(e) == IF e = "refresh" THEN "refresh" ELSE ""

\* lib.rs:287-299 get_audio, lib.rs:253-264 audio_url: look the album up and
\* format the path; lib.rs:245-246 file_url sends get_item
get_audio(r, album_id, disc_id, track_id) ==
    /\ rpc[r] = "idle"
    /\ start_read(r, "get_audio", album_id,
                  format_audio_path(lookup(albums, album_id)[1], album_id,
                                    disc_id, track_id, extension),
                  "get_item")

\* lib.rs:326-331 get_cover, lib.rs:267-277 cover_url; mp3.rs:148-154
\* delegates here
get_cover(r, album_id, disc_id) ==
    /\ rpc[r] = "idle"
    /\ start_read(r, "get_cover", album_id,
                  format_cover_path(lookup(albums, album_id)[1], album_id,
                                    disc_id),
                  "get_item")

\* mp3.rs:86-107 Mp3OnedriveProvider::get_audio up to its get_item
mp3_get_audio(r, album_id, disc_id, track_id) ==
    /\ rpc[r] = "idle"
    /\ start_read(r, "mp3_get_audio", album_id,
                  format_audio_path(lookup(albums, album_id)[1], album_id,
                                    disc_id, track_id, mp3_extension),
                  "mp3_get_item")

\* mp3.rs:47-67 Mp3OnedriveProvider::get_audio_info up to its get_item
mp3_get_audio_info(r, album_id, disc_id, track_id) ==
    /\ rpc[r] = "idle"
    /\ start_read(r, "mp3_get_audio_info", album_id,
                  format_audio_path(lookup(albums, album_id)[1], album_id,
                                    disc_id, track_id, mp3_extension),
                  "mp3_get_item")

\* lib.rs:246-249 get_item answers file_url: an item with a download url
\* (lib.rs:298-306,330 the GET is sent to it), an item without one, or an
\* error of the refresh or of the request
get_item_reply(r, reply) ==
    /\ rpc[r] = "get_item"
    /\ IF reply = "url"
         THEN /\ rget' = [rget EXCEPT ![r] = file_url(r, download_url(r))]
              /\ rpc' = [rpc EXCEPT ![r] = "download"]
              /\ UNCHANGED <<rresult, rpath, robs, rcause, rqueries>>
         ELSE /\ end_read(r, IF reply = "no_url"
                               THEN "FileNotFound"
                               ELSE ProviderError_from(OneDriveError(reply)))
              /\ rcause' = [rcause EXCEPT ![r] = cause(reply)]
    /\ UNCHANGED <<albums, items, pcR, resultR, reloads, ralbum, reads,
                   committed, rop>>
    /\ UNCHANGED <<credVars, auxVars>>

\* lib.rs:301-306,330 the download GET answers, or fails (`?`); get_cover
\* returns the body stream, get_audio goes on to read_duration
download_reply(r, ok) ==
    /\ rpc[r] = "download"
    /\ IF ok /\ rop[r] = "get_audio"
         THEN /\ rpc' = [rpc EXCEPT ![r] = "read_duration"]
              /\ UNCHANGED <<rresult, rpath, robs, rqueries, rget>>
         ELSE end_read(r, IF ok THEN "ok" ELSE "GeneralError")
    /\ UNCHANGED <<albums, items, pcR, resultR, reloads, ralbum, reads,
                   committed, rop, rcause>>
    /\ UNCHANGED <<credVars, auxVars>>

\* lib.rs:312-322 read_duration yields the duration, or fails (`?`)
read_duration(r, ok) ==
    /\ rpc[r] = "read_duration"
    /\ end_read(r, IF ok THEN "ok" ELSE "read_duration_err")
    /\ UNCHANGED <<albums, items, pcR, resultR, reloads, ralbum, reads,
                   committed, rop, rcause>>
    /\ UNCHANGED <<credVars, auxVars>>

\* mp3.rs:69-76,109-116 the unwraps of audio, "duration", as_u64 and size
unwraps_succeed(item) == item.audio = "duration_u64" /\ item.size # None

\* mp3.rs:59-67,99-107 get_item fails (`?`), in its refresh or its request
mp3_get_item_err(r, e) ==
    /\ rpc[r] = "mp3_get_item"
    /\ end_read(r, ProviderError_from(OneDriveError(e)))
    /\ rcause' = [rcause EXCEPT ![r] = cause(e)]
    /\ UNCHANGED <<albums, items, pcR, resultR, reloads, ralbum, reads,
                   committed, rop>>
    /\ UNCHANGED <<credVars, auxVars>>

\* mp3.rs:69-83,109-132 get_item answers with an item: its fields are
\* unwrapped; get_audio_info returns them, get_audio sends the GET to the
\* item's download url
mp3_get_item_ok(r, item) ==
    /\ rpc[r] = "mp3_get_item"
    /\ IF unwraps_succeed(item) /\ rop[r] = "mp3_get_audio"
            /\ item.download_url
         THEN /\ rget' = [rget EXCEPT ![r] = download_url(r)]
              /\ rpc' = [rpc EXCEPT ![r] = "download"]
              /\ UNCHANGED <<rresult, rpath, robs, rqueries>>
         ELSE end_read(r, IF ~unwraps_succeed(item) THEN "panic"
                          ELSE IF rop[r] = "mp3_get_audio_info" THEN "ok"
                          ELSE "FileNotFound")
    /\ UNCHANGED <<albums, items, pcR, resultR, reloads, ralbum, reads,
                   committed, rop, rcause>>
    /\ UNCHANGED <<credVars, auxVars>>

\* the reading task drops its result and may read again
ReadReturn(r) ==
    /\ rpc[r] \in {"done", "albums_done"}
    /\ rpc' = [rpc EXCEPT ![r] = "idle"]
    /\ rop' = [rop EXCEPT ![r] = ""]
    /\ ralbum' = [ralbum EXCEPT ![r] = ""]
    /\ rpath' = [rpath EXCEPT ![r] = ""]
    /\ robs' = [robs EXCEPT ![r] = {}]
    /\ rresult' = [rresult EXCEPT ![r] = "none"]
    /\ rqueries' = [rqueries EXCEPT ![r] = 0]
    /\ rget' = [rget EXCEPT ![r] = None]
    /\ rcause' = [rcause EXCEPT ![r] = ""]
    /\ UNCHANGED <<albums, items, pcR, resultR, reloads, reads, committed>>
    /\ UNCHANGED <<credVars, auxVars>>

CatNext ==
    \/ \E path \in RootPaths : reload(path)
    \/ \E listing \in SUBSET ItemUniverse : list_children_ok(listing)
    \/ \E e \in {"refresh", "request"} : list_children_err(e)
    \/ albums_clear
    \/ albums_extend
    \/ \E r \in Readers : albums_keys(r)
    \/ \E r \in Readers, a \in AlbumIds, d \in 1..MaxDisc, t \in 1..MaxTrack :
          get_audio(r, a, d, t)
    \/ \E r \in Readers, reply \in {"url", "no_url", "request"} :
          get_item_reply(r, reply)
    \/ \E r \in Readers, ok \in BOOLEAN : download_reply(r, ok)
    \/ \E r \in Readers, ok \in BOOLEAN : read_duration(r, ok)
    \/ \E r \in Readers : ReadReturn(r)

\* the items get_item can answer Mp3OnedriveProvider with
DriveItems ==
    [audio : {"absent", "no_duration", "duration_not_u64", "duration_u64"},
     size : {None, Some(1)},
     download_url : BOOLEAN]

DiscIds == {None} \cup {Some(d) : d \in 1..MaxDisc}

FetchNext ==
    \/ \E r \in Readers, a \in AlbumIds, d \in 1..MaxDisc, t \in 1..MaxTrack :
          get_audio(r, a, d, t)
    \/ \E r \in Readers, a \in AlbumIds, d \in DiscIds : get_cover(r, a, d)
    \/ \E r \in Readers, a \in AlbumIds, d \in 1..MaxDisc, t \in 1..MaxTrack :
          mp3_get_audio(r, a, d, t)
    \/ \E r \in Readers, a \in AlbumIds, d \in 1..MaxDisc, t \in 1..MaxTrack :
          mp3_get_audio_info(r, a, d, t)
    \/ \E r \in Readers, reply \in {"url", "no_url", "refresh", "request"} :
          get_item_reply(r, reply)
    \/ \E r \in Readers, e \in {"refresh", "request"} : mp3_get_item_err(r, e)
    \/ \E r \in Readers, item \in DriveItems : mp3_get_item_ok(r, item)
    \/ \E r \in Readers, ok \in BOOLEAN : download_reply(r, ok)
    \/ \E r \in Readers, ok \in BOOLEAN : read_duration(r, ok)
    \/ \E r \in Readers : ReadReturn(r)

\* ---------------------------------------------------- the range of a reply
\* byte offsets are multiples of Stride up to MaxOffset strides
MaxOffset == 1
Stride == 7

Offsets == {i * Stride : i \in 0..MaxOffset}
Totals == {i * Stride : i \in 1..(MaxOffset + 1)}

\* anni_provider::Range, built at lib.rs:398-402
Ranges ==
    {r \in [start : Offsets,
            end : {None} \cup {Some(e) : e \in Offsets},
            total : {None} \cup {Some(t) : t \in Totals}] :
        r.end # None => r.start <= r.end[1]}

\* lib.rs:387,404 Range::FULL
FULL == [start |-> 0, end |-> None, total |-> None]

\* a str is the sequence of its bytes: an ASCII byte is its character, a byte
\* of a character outside ASCII is written by its hex name
Chars(s) == [i \in 1..Len(s) |-> SubSeq(s, i, i)]

\* U+00E9 in UTF-8: a leading byte and a continuation byte
NonAscii == <<"<C3>", "<A9>">>

IsAscii(b) == Len(b) = 1
IsContinuation(b) == b = "<A9>"

\* a to_str that hands on whatever bytes the header holds
to_str_unchecked(v) == Some(v)

\* lib.rs:310 HeaderValue::to_str().ok(): None unless every byte is visible
\* ASCII
to_str(v) ==
    IF \A i \in 1..Len(v) : IsAscii(v[i]) THEN Some(v) ELSE None

\* lib.rs:307-311 headers().get(CONTENT_RANGE).and_then(|v| v.to_str().ok())
header_text(h) == IF h = None THEN None ELSE to_str(h[1])

\* lib.rs:302 Range::to_range_header: nothing for a range from byte 0 without
\* an end, otherwise "bytes=start-" or "bytes=start-end"
to_range_header(r) ==
    IF r.start = 0 /\ r.end = None
      THEN None
      ELSE Some(Chars("bytes=") \o Chars(ToString(r.start)) \o <<"-">>
                \o (IF r.end = None THEN <<>> ELSE Chars(ToString(r.end[1]))))

RECURSIVE find(_, _, _)
\* str::find: the first position of ch in s at or after i, 0 if there is none
find(s, ch, i) ==
    IF i > Len(s) THEN 0
    ELSE IF s[i] = ch THEN i
    ELSE find(s, ch, i + 1)

\* lib.rs:395-396 str::split_once
split_once(s, ch) ==
    LET i == find(s, ch, 1)
    IN  IF i = 0 THEN None
        ELSE Some(<<SubSeq(s, 1, i - 1), SubSeq(s, i + 1, Len(s))>>)

DigitChars == {"0", "1", "2", "3", "4", "5", "6", "7", "8", "9"}
DigitVal(c) ==
    CASE c = "0" -> 0 [] c = "1" -> 1 [] c = "2" -> 2 [] c = "3" -> 3
      [] c = "4" -> 4 [] c = "5" -> 5 [] c = "6" -> 6 [] c = "7" -> 7
      [] c = "8" -> 8 [] c = "9" -> 9

RECURSIVE DecimalValue(_)
DecimalValue(ds) ==
    IF ds = <<>> THEN 0
    ELSE 10 * DecimalValue(SubSeq(ds, 1, Len(ds) - 1)) + DigitVal(ds[Len(ds)])

RECURSIVE StripZeros(_)
StripZeros(ds) ==
    IF Len(ds) > 1 /\ ds[1] = "0" THEN StripZeros(Tail(ds)) ELSE ds

\* lib.rs:399-401 str::parse::<u64>: an optional '+', then one or more
\* decimal digits and nothing else; Err when the number does not fit 64
\* bits (more than 20 significant digits; the texts parsed here have fewer
\* than 10 or more than 20)
parse_u64(s) ==
    LET ds == IF s # <<>> /\ s[1] = "+" THEN Tail(s) ELSE s
    IN  IF ds = <<>> \/ \E i \in 1..Len(ds) : ds[i] \notin DigitChars
          THEN None
        ELSE IF Len(StripZeros(ds)) > 20 THEN None
        ELSE Some(DecimalValue(StripZeros(ds)))

\* lib.rs:393 &content_range[6..] needs byte 6 to begin a character
is_char_boundary(s, n) == n = Len(s) \/ ~IsContinuation(s[n + 1])

unwrap_or(o, d) == IF o = None THEN d ELSE o[1]

\* a parser that gives up on the whole header when one field fails to parse
content_range_to_range_strict(content_range) ==
    IF content_range = None \/ Len(content_range[1]) <= 6
      THEN [panicked |-> FALSE, range |-> FULL]
    ELSE LET rest == SubSeq(content_range[1], 7, Len(content_range[1]))
             a == unwrap_or(split_once(rest, "-"), <<rest, <<>>>>)
             b == unwrap_or(split_once(a[2], "/"), <<a[2], <<>>>>)
             whole == /\ parse_u64(a[1]) # None
                      /\ parse_u64(b[1]) # None
                      /\ parse_u64(b[2]) # None
         IN  [panicked |-> FALSE,
              range |-> IF whole
                          THEN [start |-> parse_u64(a[1])[1],
                                end |-> parse_u64(b[1]),
                                total |-> parse_u64(b[2])]
                          ELSE FULL]

\* a parser that drops the total the header reports
content_range_to_range_no_total(content_range) ==
    IF content_range = None \/ Len(content_range[1]) <= 6
      THEN [panicked |-> FALSE, range |-> FULL]
    ELSE LET rest == SubSeq(content_range[1], 7, Len(content_range[1]))
             a == unwrap_or(split_once(rest, "-"), <<rest, <<>>>>)
             b == unwrap_or(split_once(a[2], "/"), <<a[2], <<>>>>)
         IN  [panicked |-> FALSE,
              range |-> [start |-> unwrap_or(parse_u64(a[1]), 0),
                         end |-> parse_u64(b[1]),
                         total |-> None]]

\* lib.rs:382-406; slicing off a character boundary panics
content_range_to_range(content_range) ==
    IF content_range = None
      THEN [panicked |-> FALSE, range |-> FULL]
    ELSE IF Len(content_range[1]) <= 6
      THEN [panicked |-> FALSE, range |-> FULL]
    ELSE IF ~is_char_boundary(content_range[1], 6)
      THEN [panicked |-> TRUE, range |-> FULL]
    ELSE LET rest == SubSeq(content_range[1], 7, Len(content_range[1]))
             a == unwrap_or(split_once(rest, "-"), <<rest, <<>>>>)
             from == a[1]
             b == unwrap_or(split_once(a[2], "/"), <<a[2], <<>>>>)
             to == b[1]
             total == b[2]
         IN  [panicked |-> FALSE,
              range |-> [start |-> unwrap_or(parse_u64(from), 0),
                         end |-> parse_u64(to),
                         total |-> parse_u64(total)]]

\* texts the fields of the header may hold, each with the number that
\* str::parse::<u64> reads from it (None: it is no number)
FromFields ==
    { [text |-> Chars("0"), val |-> Some(0)],
      [text |-> Chars("+07"), val |-> Some(7)],
      [text |-> Chars("abc"), val |-> None],
      [text |-> <<>>, val |-> None] }

ToFields ==
    { [text |-> Chars("99"), val |-> Some(99)],
      [text |-> Chars("999999999999999999999999999"), val |-> None],
      [text |-> <<>>, val |-> None] }

TotalFields ==
    { [text |-> Chars("200"), val |-> Some(200)],
      [text |-> Chars("ghi"), val |-> None],
      [text |-> <<>>, val |-> None] }

\* what the header may begin with: six bytes, fewer, more, and six bytes
\* the last of which is the leading byte of a two-byte character
Prefixes ==
    { Chars("bytes "), Chars("items "), Chars("bytes"), <<>>,
      Chars(" bytes "), Chars("bytes") \o NonAscii }

\* the header value built from its parts
header_of(p) ==
    p.prefix \o p.from.text \o (IF p.dash THEN <<"-">> ELSE <<>>)
        \o p.to.text \o (IF p.slash THEN <<"/">> ELSE <<>>) \o p.total.text

HeaderParts ==
    [prefix : Prefixes, from : FromFields, dash : BOOLEAN, to : ToFields,
     slash : BOOLEAN, total : TotalFields]

\* the backend serves bytes start..=end of a resource of `total` bytes and
\* confirms them: "bytes start-end/total"
echo(sent, total) ==
    LET spec == SubSeq(sent, 7, Len(sent))
        a == split_once(spec, "-")[1]
        first == parse_u64(a[1])[1]
        last == unwrap_or(parse_u64(a[2]), total - 1)
    IN  Chars("bytes ") \o Chars(ToString(first)) \o <<"-">>
            \o Chars(ToString(last)) \o <<"/">> \o Chars(ToString(total))

\* the task is about to ask for a range
RangeInit ==
    /\ crPc = "start"
    /\ crIn = None
    /\ crOut = None

\* lib.rs:299-306 mp3.rs:124-132 the GET is sent, with a Range header unless
\* the range is full
send(r) ==
    /\ crPc = "start"
    /\ crIn' = Some([range |-> r, sent |-> to_range_header(r),
                     parts |-> None, header |-> None, total |-> None])
    /\ crPc' = "sent"
    /\ UNCHANGED <<crOut, pathVars, credVars, catVars, fetchVars>>

\* the reply carries no Content-Range header
reply_without_header ==
    /\ crPc = "sent"
    /\ crPc' = "replied"
    /\ UNCHANGED <<crIn, crOut, pathVars, credVars, catVars, fetchVars>>

\* the reply carries some Content-Range header
reply_with_header(p) ==
    /\ crPc = "sent"
    /\ crIn' = Some([crIn[1] EXCEPT !.parts = Some(p),
                                    !.header = Some(header_of(p))])
    /\ crPc' = "replied"
    /\ UNCHANGED <<crOut, pathVars, credVars, catVars, fetchVars>>

\* the reply confirms the range that was asked for
reply_echo(total) ==
    /\ crPc = "sent"
    /\ crIn[1].sent # None
    /\ crIn[1].range.start < total
    /\ crIn[1].range.end # None => crIn[1].range.end[1] < total
    /\ crIn' = Some([crIn[1] EXCEPT !.header = Some(echo(crIn[1].sent[1], total)),
                                    !.total = Some(total)])
    /\ crPc' = "echoed"
    /\ UNCHANGED <<crOut, pathVars, credVars, catVars, fetchVars>>

\* lib.rs:307-311 mp3.rs:133-137 the reply's Content-Range becomes the Range
\* of the reader
parse_reply ==
    /\ crPc \in {"replied", "echoed"}
    /\ crOut' = Some(content_range_to_range(header_text(crIn[1].header)))
    /\ crPc' = IF crPc = "echoed" THEN "parsed_echo" ELSE "parsed"
    /\ UNCHANGED <<crIn, pathVars, credVars, catVars, fetchVars>>

RangeNext ==
    \/ \E r \in Ranges : send(r)
    \/ reply_without_header
    \/ \E p \in HeaderParts : reply_with_header(p)
    \/ \E total \in Totals : reply_echo(total)
    \/ parse_reply

\* ------------------------------------------------------- the remote paths
\* folders between the drive's root and the albums, at most
MaxDepth == 2

\* lib.rs:417-418 NonZeroU8: its smallest values and its largest
MaxU8 == 255
NonZeroU8s == {1, 2, MaxU8}

FolderNames == {"music", "anni"}

RECURSIVE Folders(_)
\* the sequences of at most n folder names
Folders(n) ==
    IF n = 0 THEN {<<>>}
    ELSE Folders(n - 1)
           \cup {Append(f, x) : f \in {g \in Folders(n - 1) : Len(g) = n - 1},
                                x \in FolderNames}

RECURSIVE Join(_, _)
\* the pieces of q with sep between them
Join(q, sep) ==
    IF q = <<>> THEN ""
    ELSE IF Len(q) = 1 THEN q[1]
    ELSE q[1] \o sep \o Join(Tail(q), sep)

\* parentReference.path of an item in the folder drive:/s1/.../sn
parent_reference(drive_prefix, segs) ==
    IF segs = <<>> THEN drive_prefix \o "/root:"
    ELSE drive_prefix \o "/root:/" \o Join(segs, "/")

\* the task is about to read one listed entry
PathInit ==
    /\ fpPc = "start"
    /\ fpIn = None
    /\ fpOut = None

\* lib.rs:226-236 reload_albums turns a listed entry into (name, parent path)
list_entry(drive_prefix, segs, name) ==
    /\ fpPc = "start"
    /\ fpIn' = Some([segs |-> segs, album_id |-> name,
                     parent |-> parent_reference(drive_prefix, segs),
                     disc_id |-> None, track_id |-> None, ext |-> ""])
    /\ fpOut' = Some([base |-> parent_path(parent_reference(drive_prefix, segs)),
                      path |-> ""])
    /\ fpPc' = "listed"
    /\ UNCHANGED <<rangeVars, credVars, catVars, fetchVars>>

\* lib.rs:253-264 mp3.rs:53-56 the path of a track of that album
audio_url(disc_id, track_id, ext) ==
    /\ fpPc = "listed"
    /\ fpIn' = Some([fpIn[1] EXCEPT !.disc_id = Some(disc_id),
                                    !.track_id = Some(track_id),
                                    !.ext = ext])
    /\ fpOut' = Some([fpOut[1] EXCEPT !.path =
                          format_audio_path(fpOut[1].base, fpIn[1].album_id,
                                            disc_id, track_id, ext)])
    /\ fpPc' = "audio"
    /\ UNCHANGED <<rangeVars, credVars, catVars, fetchVars>>

\* lib.rs:267-277 the path of a cover of that album
cover_url(disc_id) ==
    /\ fpPc = "listed"
    /\ fpIn' = Some([fpIn[1] EXCEPT !.disc_id = disc_id])
    /\ fpOut' = Some([fpOut[1] EXCEPT !.path =
                          format_cover_path(fpOut[1].base, fpIn[1].album_id,
                                            disc_id)])
    /\ fpPc' = "cover"
    /\ UNCHANGED <<rangeVars, credVars, catVars, fetchVars>>

PathNext ==
    \/ \E drive_prefix \in {"/drive", "/drives/b!x"},
          segs \in Folders(MaxDepth), name \in {"ALBUM", Album1} :
          list_entry(drive_prefix, segs, name)
    \/ \E disc_id \in NonZeroU8s, track_id \in NonZeroU8s,
          ext \in {extension, mp3_extension} :
          audio_url(disc_id, track_id, ext)
    \/ \E disc_id \in {None} \cup {Some(d) : d \in NonZeroU8s} :
          cover_url(disc_id)

\* ------------------------------------------------------- specifications
\* the provider at rest, while the client is exercised
CatRest ==
    /\ items = {}
    /\ albums = EmptyMap
    /\ committed = EmptyMap
    /\ pcR = "idle"
    /\ resultR = "ok"
    /\ reloads = 0
    /\ rpc = [r \in Readers |-> "idle"]
    /\ ralbum = [r \in Readers |-> ""]
    /\ rpath = [r \in Readers |-> ""]
    /\ robs = [r \in Readers |-> {}]
    /\ rresult = [r \in Readers |-> "none"]
    /\ reads = 0
    /\ ReadersIdle

\* the client at rest, while the provider is exercised
CredRest == CredInit /\ expire = MaxExpiresIn

Init == CredInit /\ CatRest /\ AuxRest

Next == CredNext

\* OneDriveClient under concurrent callers
Spec == Init /\ [][Next]_vars

\* the steps of a call once it has begun: taking client_info.write()
\* (lib.rs:113), the exchange answering (lib.rs:116-120), taking
\* drive.write() (lib.rs:127), the stores (lib.rs:129-130), taking
\* drive.read() and the backend answering (lib.rs:150,159,169-176)
Run(c) ==
    \/ refresh_enter(c)
    \/ login_err(c)
    \/ \E secs \in 0..MaxExpiresIn : login_ok(c, secs)
    \/ refresh_install_drive(c)
    \/ set_expire(c)
    \/ refresh_finish(c)
    \/ drive_read(c)
    \/ \E ok \in BOOLEAN : backend_reply(c, ok)

\* the runtime polls every task that can run, tokio's RwLock hands a free
\* lock to a task waiting for it, and the identity endpoint and the backend
\* answer every request: a call that can take a step without end takes one
Fairness == \A c \in Callers : WF_vars(Run(c))

\* the wall clock advances, for LiveTime seconds
LiveTick == clock < LiveTime /\ Tick

LiveNext ==
    \/ LiveTick
    \/ \E c \in Callers : list_children(c)
    \/ \E c \in Callers : get_item_download_url(c)
    \/ \E c \in Callers : get_item(c)
    \/ \E c \in Callers : Run(c)
    \/ \E c \in Callers : Return(c)

\* OneDriveClient under concurrent callers and a fair runtime
LiveSpec == Init /\ [][LiveNext]_vars /\ Fairness

CatSpecInit == CatInit /\ CredRest /\ AuxRest

CatSpecNext == CatNext

\* OneDriveProvider: reload() against reading tasks
CatSpec == CatSpecInit /\ [][CatSpecNext]_vars

FetchInit == CatInit /\ CredRest /\ AuxRest

\* OneDriveProvider and Mp3OnedriveProvider: the reads and their requests
FetchSpec == FetchInit /\ [][FetchNext]_vars

PathRest == fpPc = "rest" /\ fpIn = None /\ fpOut = None

RangeRest == crPc = "rest" /\ crIn = None /\ crOut = None

PathSpecInit == PathInit /\ RangeRest /\ CredRest /\ CatRest

\* the base path kept for an album and the paths formatted from it
PathSpec == PathSpecInit /\ [][PathNext]_vars

RangeSpecInit == RangeInit /\ PathRest /\ CredRest /\ CatRest

\* the Range header of a download and the Content-Range of its reply
RangeSpec == RangeSpecInit /\ [][RangeNext]_vars

\* ------------------------------------------------ claims: OneDriveClient
InRefresh(c) == pc[c] \in {"exchange", "install_drive", "set_expire", "set_token"}
AuthFailed(c) == pc[c] = "done" /\ result[c] \in {"auth_err", "auth_stale"}
Requested(c) == pc[c] = "request" \/ (pc[c] = "done" /\ reqTok[c] # None)

\* C1: callers that find the credential expired cause one exchange per
\* expiry epoch: an exchange is in flight only while the credential is
\* expired, no epoch sees two successful exchanges, and a caller that did
\* not exchange itself goes on to its backend request on the credential a
\* completed refresh installed, never ending in an authorization error.
C1_OneExchangePerEpoch ==
    /\ \A e \in Epochs : okCount[e] <= 1
    /\ \A c \in Callers :
          /\ pc[c] = "exchange" => is_expired
          /\ (startExpired[c] /\ nExch[c] = 0 /\ pc[c] \in {"drive_read", "request", "done"})
                => (completed > startDone[c] /\ result[c] \in {"none", "ok", "backend_err"})

\* two callers found the same epoch expired; one exchanged, the other
\* skipped the exchange, and both calls succeeded
C1_Witness ==
    \E c, d \in Callers :
        /\ c # d
        /\ startExpired[c] /\ startExpired[d]
        /\ startDone[c] = startDone[d]
        /\ nExch[c] = 1 /\ nExch[d] = 0
        /\ pc[c] = "done" /\ pc[d] = "done"
        /\ result[c] = "ok" /\ result[d] = "ok"

C3_FailedRefreshLeavesState ==
    [][\A c \in Callers :
        (pc[c] = "exchange" /\ pc'[c] # "exchange") =>
            \/ pc'[c] = "install_drive"
            \/ /\ pc'[c] = "done"
               /\ result'[c] \in {"auth_err", "auth_stale"}
               /\ drive' = atLock[c].drive
               /\ refresh_token' = atLock[c].refresh_token
               /\ expire' = atLock[c].expire
               /\ reqTok'[c] = None]_vars

\* a refresh failed after an earlier one had installed a rotated credential
C3_Witness == \E c \in Callers : AuthFailed(c) /\ atLock[c].drive >= 1

\* C4: the installed access token, the expiry and (when the lock is free to
\* read it) the refresh token always come from the same exchange.
C4_InstallIsAtomic ==
    /\ drive = expireGen
    /\ infoLock = {} => refresh_token = drive

\* C5: a call sends at most one exchange; a failed exchange ends the call at
\* once with the credential still expired and the lock free, so the lock is
\* held exactly while a refresh is between its exchange and its return, and a
\* caller waiting in refresh() with the lock free can enter it.
C5_NoRetryNotStuck ==
    /\ [](\A c \in Callers :
            /\ nExch[c] <= 1
            /\ (infoLock = {c}) <=> InRefresh(c)
            /\ (pc[c] = "refresh" /\ infoLock = {}) => ENABLED refresh_enter(c))
    /\ [][\A c \in Callers :
            (pc[c] = "exchange" /\ pc'[c] = "done") =>
                (is_expired' /\ infoLock' = {})]_vars

\* after one caller's exchange failed, another caller has sent a new
\* exchange for the same expiry epoch
C5_Witness ==
    \E c, d \in Callers :
        /\ c # d
        /\ AuthFailed(c)
        /\ pc[d] = "exchange"
        /\ seen[d] = seen[c]

\* C6: a call that found the credential expired when it began has a backend
\* request out only after a refresh completed since; a call whose refresh
\* failed sent no backend request.
C6_FreshBeforeRequest ==
    \A c \in Callers :
        /\ (Requested(c) /\ startExpired[c]) => completed > startDone[c]
        /\ AuthFailed(c) => reqTok[c] = None

\* a call that began on an expired credential has its backend request out
C6_Witness == \E c \in Callers : pc[c] = "request" /\ startExpired[c]

\* the caller skipped refresh(): its is_expired() at lib.rs:136 was false
SkippedRefresh(c) == ~startExpired[c] /\ nExch[c] = 0

\* C21: the installed access token is never older than the exchange whose
\* expiry is stored, so whoever reads the expiry as not expired finds the
\* token of that exchange or of a later one installed; the stored expiry and
\* the installed token only move to later exchanges, so a caller that
\* skipped refresh() has its backend request out with a token no older than
\* the expiry it observed.
C21_TokenNotOlderThanExpiry ==
    /\ [](/\ drive >= expireGen
          /\ \A c \in Callers :
                (pc[c] = "request" /\ SkippedRefresh(c)) =>
                    /\ reqTok[c] # None
                    /\ reqTok[c][1] >= expireGen)
    /\ [][expireGen' >= expireGen /\ drive' >= drive]_vars

\* a caller that skipped refresh() has its request out on the token a
\* refresh installed, while the stored expiry is one a refresh published
C21_Witness ==
    \E c \in Callers :
        /\ pc[c] = "request"
        /\ SkippedRefresh(c)
        /\ reqTok[c] = Some(drive)
        /\ expireGen >= 1
        /\ ~is_expired

\* C22: under fair locks and answering endpoints every operation that a
\* caller began (list_children, get_item, get_item_download_url, each
\* through refresh_if_expired) returns, whatever the other callers do.
C22_EveryCallReturns ==
    \A c \in Callers : (pc[c] # "idle") ~> (pc[c] = "done")

\* a refresh holds client_info's write lock and waits for drive's write lock
\* while another caller holds a read guard of drive across its request
C22_Witness ==
    \E c, d \in Callers :
        /\ c # d
        /\ pc[c] = "install_drive"
        /\ infoLock = {c}
        /\ pc[d] = "request"
        /\ d \in driveReaders

\* ---------------------------------------------- claims: OneDriveProvider
Loaded == pcR = "idle" /\ resultR = "ok"
InFlight(r) == rpc[r] \in {"get_item", "download", "read_duration"}

\* C7: after a successful reload the catalog's ids are exactly the names of
\* the listed entries that are 36 characters long and carry a name and a
\* parent path.
C7_Only36CharNames ==
    (Loaded /\ reloads >= 1) => DOMAIN albums =
        {i.name[1] : i \in {j \in kept(items) : Len(j.name[1]) = 36}}

\* C8: once a reload has succeeded the catalog is exactly the entries of the
\* latest listing: every id in it names an entry of that listing.
C8_WholesaleReplace ==
    pcR \in {"idle", "list"} =>
        /\ albums = entries(items)
        /\ \A n \in DOMAIN albums : \E i \in items : i.name = Some(n)

\* an album a get_audio was served from is gone after a later reload
C8_Witness ==
    /\ Loaded
    /\ reloads >= 1
    /\ \E r \in Readers :
          rpc[r] = "done" /\ rresult[r] = "ok" /\ ralbum[r] \notin DOMAIN albums

\* C9: while a read holds the provider, no reload is between its clear and
\* its extend: the map is the catalog a completed reload left, and what the
\* read saw is that catalog's key set (albums) or its entry (lookups).
C9_ReadersSeeCommitted ==
    \A r \in Readers :
        Borrowing(r) =>
            /\ pcR = "idle"
            /\ albums = committed
            /\ robs[r] = IF rpc[r] = "albums_done"
                           THEN DOMAIN committed
                           ELSE {ralbum[r]} \cap DOMAIN committed

\* a read made after a reload replaced the catalog sees the new catalog
C9_Witness ==
    /\ reloads >= 1
    /\ resultR = "ok"
    /\ \E r \in Readers : Borrowing(r) /\ robs[r] # {}

\* C10 as claimed: a reload can start while a get_audio that resolved its
\* path is in flight.
C10_ReloadMayOverlap ==
    \A r \in Readers :
        (InFlight(r) /\ pcR = "idle" /\ reloads < MaxReloads) =>
            ENABLED (\E path \in RootPaths : reload(path))

\* C10 amended: while a get_audio that resolved its path is in flight no
\* reload can start or run, so the catalog still holds the album and the
\* path in use is the one that entry formats to.
C10_ReloadWaitsForGetAudio ==
    \A r \in Readers :
        InFlight(r) =>
            /\ pcR = "idle"
            /\ ~ENABLED (\E path \in RootPaths : reload(path))
            /\ ralbum[r] \in DOMAIN albums
            /\ \E d \in 1..MaxDisc, t \in 1..MaxTrack :
                  rpath[r] = format_audio_path(albums[ralbum[r]], ralbum[r],
                                               d, t, extension)

\* after a reload, a get_audio has its download in flight while another
\* reload is still allowed by its budget
C10_Witness ==
    \E r \in Readers :
        rpc[r] = "download" /\ reloads >= 1 /\ reloads < MaxReloads

\* ------------------------------------------------- claims: the reads
FetchOps == {"get_audio", "get_cover", "mp3_get_audio", "mp3_get_audio_info"}

\* C11: a get_audio (of either provider), get_audio_info or get_cover for an
\* album id the catalog does not hold is never at a step where a metadata
\* query or a download GET is out: from its first step on it has ended with
\* FileNotFound, with no query and no GET sent and no stream returned.
C11_UnregisteredIsNotFound ==
    \A r \in Readers :
        (rop[r] \in FetchOps /\ ralbum[r] \notin DOMAIN albums) =>
            /\ rpc[r] = "done"
            /\ rresult[r] = "FileNotFound"
            /\ rqueries[r] = 0
            /\ rget[r] = None

\* a get_audio_info asked a non-empty catalog for an album it does not hold
C11_Witness ==
    \E r \in Readers :
        /\ rop[r] = "mp3_get_audio_info"
        /\ albums # EmptyMap
        /\ ralbum[r] \notin DOMAIN albums
        /\ rpc[r] = "done"

\* C12: a get_audio or get_audio_info of Mp3OnedriveProvider whose metadata
\* query succeeded ends with a value or an error, whatever fields the item
\* carries: it never ends in a panic.
C12_MissingFieldIsAnError ==
    \A r \in Readers :
        (rop[r] \in {"mp3_get_audio", "mp3_get_audio_info"} /\ rpc[r] = "done")
            => rresult[r] # "panic"

\* C13: a read that ended because the credential exchange failed reports
\* an error other than the one a failed backend request is reported as.
C13_AuthErrorIsDistinct ==
    \A r \in Readers :
        (rpc[r] = "done" /\ rcause[r] = "refresh") =>
            rresult[r] # ProviderError_from(OneDriveError("request"))

Parsed == crPc \in {"parsed", "parsed_echo"}
Header == crIn[1].header
Parts == crIn[1].parts[1]

\* the positions that bound a field of header h: the end of the six-byte
\* prefix, every '-' and '/', and the end of the text
Cuts(h) == {6, Len(h) + 1} \cup {i \in 7..Len(h) : h[i] \in {"-", "/"}}

\* the numbers that can be read from a stretch of h between two such positions
Readable(h) ==
    {parse_u64(SubSeq(h, a + 1, b - 1)) : a, b \in Cuts(h)} \ {None}

\* C14: whatever Content-Range value the reply carries (none, empty, short,
\* another prefix, no '-' or '/', fields that are no numbers, bytes outside
\* ASCII), parsing it does not panic, and the result is FULL or a Range
\* whose start (if not 0), end and total are numbers read from the header.
C14_ParserIsTotal ==
    Parsed =>
        /\ ~crOut[1].panicked
        /\ LET r == crOut[1].range
           IN  \/ r = FULL
               \/ /\ Header # None
                  /\ r.start = 0 \/ Some(r.start) \in Readable(Header[1])
                  /\ r.end = None \/ r.end \in Readable(Header[1])
                  /\ r.total = None \/ r.total \in Readable(Header[1])

\* a header whose seventh byte continues a two-byte character was parsed
C14_Witness ==
    /\ crPc = "parsed"
    /\ Header # None
    /\ Len(Header[1]) > 6
    /\ ~is_char_boundary(Header[1], 6)

Min(S) == CHOOSE x \in S : \A y \in S : x <= y

\* the part of s before the first ch (all of s without one), and after it
Before(s, ch) ==
    LET at == {i \in 1..Len(s) : s[i] = ch}
    IN  IF at = {} THEN s ELSE SubSeq(s, 1, Min(at) - 1)
After(s, ch) ==
    LET at == {i \in 1..Len(s) : s[i] = ch}
    IN  IF at = {} THEN <<>> ELSE SubSeq(s, Min(at) + 1, Len(s))

\* C15: the parser, given no text or a text of at most 6 characters, answers
\* FULL; given a longer text it drops the first 6 characters, takes the part
\* before the first '-' as start, of the rest the part before the first '/'
\* as end and the part after it as total, and decides each on its own:
\* start is its number or 0, end and total are their numbers or absent.
C15_FieldsDecidedIndependently ==
    (crPc = "parsed" /\ header_text(Header) = Header) =>
        LET r == crOut[1].range
        IN  IF Header = None \/ Len(Header[1]) <= 6
              THEN r = FULL
              ELSE LET rest == SubSeq(Header[1], 7, Len(Header[1]))
                       from == Before(rest, "-")
                       to == Before(After(rest, "-"), "/")
                       total == After(After(rest, "-"), "/")
                   IN  /\ r.start = unwrap_or(parse_u64(from), 0)
                       /\ r.end = parse_u64(to)
                       /\ r.total = parse_u64(total)
                       /\ (Len(Parts.prefix) = 6 /\ Parts.dash /\ Parts.slash)
                            => /\ r.start = unwrap_or(Parts.from.val, 0)
                               /\ r.end = Parts.to.val
                               /\ r.total = Parts.total.val

\* "items abc-99/ghi" was parsed: start 0, end 99, no total
C15_Witness ==
    /\ crPc = "parsed"
    /\ Header = Some(Chars("items abc-99/ghi"))
    /\ crOut[1].range = [start |-> 0, end |-> Some(99), total |-> None]

\* C16 as claimed: when the backend confirms the range asked for and reports
\* a total, the parsed Range equals the Range asked for in start, end and
\* total.
C16_RoundTripReproduces ==
    crPc = "parsed_echo" => crOut[1].range = crIn[1].range

\* C16 amended: the parsed Range has the start asked for, the end asked for
\* or, when none was asked for, the last byte of the resource, and the
\* total the backend reports; it equals the Range asked for exactly when
\* that had an end and carried that total.
C16_RoundTripUpToBackend ==
    crPc = "parsed_echo" =>
        LET r == crIn[1].range
            out == crOut[1].range
            total == crIn[1].total[1]
        IN  /\ ~crOut[1].panicked
            /\ out.start = r.start
            /\ out.end = IF r.end # None THEN r.end ELSE Some(total - 1)
            /\ out.total = Some(total)
            /\ (out = r) <=> (r.end # None /\ r.total = Some(total))

\* a range without end and without total made the round trip
C16_Witness ==
    /\ crPc = "parsed_echo"
    /\ crIn[1].range.end = None
    /\ crIn[1].range.total = None
    /\ crIn[1].range.start > 0

\* ------------------------------------------------- claims: the paths
\* the path whose pieces, between separators, are q
PathOf(q) == "/" \o Join(q, "/")

\* C18: the path of a track is '/{album}/{disc}/{track}.{ext}' and the path
\* of a cover '/{album}/cover.jpg' or '/{album}/{disc}/cover.jpg', each
\* after '/{base}' exactly when the base is not empty: split at the
\* separators it is an empty piece (one leading separator), then the base if
\* there is one, the album, and the rest.
C18_PathTemplates ==
    fpPc \in {"audio", "cover"} =>
        LET in == fpIn[1]
            base == fpOut[1].base
            path == fpOut[1].path
            lead == IF base = "" THEN <<"">> ELSE <<"", base>>
            disc == IF in.disc_id = None THEN <<>>
                    ELSE <<ToString(in.disc_id[1])>>
        IN  /\ fpPc = "audio" =>
                  Split(path, "/") = lead \o <<in.album_id>> \o disc
                      \o <<ToString(in.track_id[1]) \o "." \o in.ext>>
            /\ fpPc = "cover" =>
                  Split(path, "/") = lead \o <<in.album_id>> \o disc
                      \o <<"cover.jpg">>
            /\ (fpPc = "audio" /\ in.album_id = "ALBUM" /\ in.ext = "flac"
                   /\ in.disc_id = Some(1) /\ in.track_id = Some(2)) =>
                  /\ base = "" => path = "/ALBUM/1/2.flac"
                  /\ base = "music" => path = "/music/ALBUM/1/2.flac"
            /\ (fpPc = "cover" /\ in.album_id = "ALBUM" /\ base = "") =>
                  /\ in.disc_id = None => path = "/ALBUM/cover.jpg"
                  /\ in.disc_id = Some(2) => path = "/ALBUM/2/cover.jpg"

\* the path of track 255 of disc 255 of an album kept under "music"
C18_Witness ==
    /\ fpPc = "audio"
    /\ fpOut[1].base = "music"
    /\ fpIn[1].disc_id = Some(MaxU8)
    /\ fpIn[1].track_id = Some(MaxU8)

\* C19: for an entry whose parent path is '<anything>/root:/s1/.../sn' the
\* base kept is 's1/.../sn', separators included and none leading, and the
\* path of a track is '/s1/.../sn/{album}/{disc}/{track}.{ext}'.
C19_BaseKeepsSeparators ==
    fpPc # "start" =>
        /\ fpOut[1].base = Join(fpIn[1].segs, "/")
        /\ fpPc = "audio" =>
              fpOut[1].path =
                  PathOf(fpIn[1].segs \o
                         <<fpIn[1].album_id, ToString(fpIn[1].disc_id[1]),
                           ToString(fpIn[1].track_id[1]) \o "." \o fpIn[1].ext>>)

\* ------------------------------------------- claims: a failing reload
\* C20: a reload() that has ended in an error (the root path is no
\* location, the refresh or the listing request failed) has left the map
\* exactly as it was before the call: as long as a reload has no listing the
\* map is the catalog the latest completed reload left.
C20_FailedReloadKeepsCatalog ==
    /\ pcR \in {"idle", "list"} => albums = committed
    /\ (pcR = "idle" /\ resultR \in {"InvalidPath", "GeneralError"}) =>
          /\ albums = committed
          /\ reloads >= 1

\* a reload failed on a catalog that holds albums
C20_Witness ==
    /\ pcR = "idle"
    /\ resultR = "GeneralError"
    /\ reloads >= 1
    /\ albums # EmptyMap

=============================================================================
